---- MODULE Spec2Model ----
(***************************************************************************)
(* Model of bcast_multi_core_hw (libs/tt_dnn/op_library/bcast/             *)
(* multi_core_hw/bcast_op_multi_core_hw.cpp): construction of the Program  *)
(* for a broadcast-along-HW binary operation on a grid of cores, and the   *)
(* override_runtime_args_callback that patches buffer addresses.           *)
(*                                                                         *)
(* Runtime-argument vectors are TLA+ sequences, so slot k of the C++       *)
(* vector is element k+1 of the sequence (see Slot).  All quantities are    *)
(* uint32_t in the source; the bounds keep every value far below 2^32, so  *)
(* no arithmetic of the model wraps.                                       *)
(***************************************************************************)
EXTENDS Integers, Sequences, FiniteSets, TLC

VARIABLES
    a, b, output,        \* the tensors handed to bcast_multi_core_hw
    grid,                \* device->compute_and_storage_grid_size(): <<x, y>>
    phase,               \* "init" before the call, "built" once it returned
                         \* (not yet patched), then "patched" after one callback
                         \* invocation and "repatched" after two or more
    work,                \* the structured binding of line 48 (split_work_to_cores)
    circular_buffers,    \* the Program's circular buffers, in creation order
    kernels,             \* the Program's kernels, in creation order
    reader_args,         \* runtime args of binary_reader_kernel, per core
    writer_args,         \* runtime args of unary_writer_kernel, per core
    lastPatch,           \* buffers of the latest callback invocation
    repeated             \* the latest invocation had the buffers of the one before

vars == <<a, b, output, grid, phase, work, circular_buffers, kernels,
          reader_args, writer_args, lastPatch, repeated>>

----------------------------------------------------------------------------
(* Bounds of the model *)

MaxN == 3
MaxGrid == 2
MaxAddr == 2

(* Program constants *)

TILE_WIDTH == 32
TILE_HEIGHT == 32
TILE_HW == 1024
single_tile_size == 2048
src0_cb_index == 0
src1_cb_index == 1
output_cb_index == 16
num_input_tiles == 2
num_output_tiles == 2

BatchesOfB == {1, 2}
BufferTypes == {"DRAM", "L1"}
Addr == 1..MaxAddr

Min(x, y) == IF x <= y THEN x ELSE y

Slot(args, k) == args[k + 1]

----------------------------------------------------------------------------
(* Shape arithmetic, lines 21-34 *)

N == a.shape[1]
C == a.shape[2]
H == a.shape[3]
W == a.shape[4]
bN == b.shape[1]
bC == b.shape[2]
bH == b.shape[3]
bW == b.shape[4]

NC == N * C
Wt_NoTileDivision == W
Wt == W \div TILE_WIDTH
Ht == H \div TILE_HEIGHT

num_tensor_tiles == NC * Ht * Wt

num_btensor_tiles == (NC * bH * bW) \div TILE_HW

bnc1 == IF bN * bC = 1 THEN 1 ELSE 0

num_cores_x == grid[1]
num_cores_y == grid[2]

----------------------------------------------------------------------------
(* Work Splitter.  split_work_to_cores lives in tt_dnn/op_library/          *)
(* work_split.hpp; it is modelled from section 4.1 of the specification.   *)

SplitCore(i, rows) == <<i \div rows, i % rows>>

split_work_to_cores(grid_size, units_to_divide) ==
    LET cols == grid_size[1]
        rows == grid_size[2]
        n == Min(cols * rows, units_to_divide)
        base == IF n = 0 THEN 0 ELSE units_to_divide \div n
        remainder == IF n = 0 THEN 0 ELSE units_to_divide % n
        g1 == {SplitCore(i, rows) : i \in 0..(remainder - 1)}
        g2 == {SplitCore(i, rows) : i \in remainder..(n - 1)}
    IN  [num_cores |-> n,
         all_cores |-> g1 \cup g2,
         core_group_1 |-> g1,
         core_group_2 |-> g2,
         num_tiles_per_core_group_1 |-> IF g1 = {} THEN 0 ELSE base + 1,
         num_tiles_per_core_group_2 |-> IF g2 = {} THEN 0 ELSE base]

SplitWorkCall == split_work_to_cores(grid, num_tensor_tiles)

NoWork == split_work_to_cores(<<1, 1>>, 0)

----------------------------------------------------------------------------
(* Queue Allocator, lines 58-88 *)

CreateCircularBuffers(index, cores, num_tiles, size) ==
    [index |-> index, core_ranges |-> cores, num_tiles |-> num_tiles, size |-> size]

CircularBuffersOf(w) ==
    << CreateCircularBuffers(src0_cb_index, w.all_cores, num_input_tiles,
                             num_input_tiles * single_tile_size),
       CreateCircularBuffers(src1_cb_index, w.all_cores, num_input_tiles,
                             num_input_tiles * single_tile_size),
       CreateCircularBuffers(output_cb_index, w.all_cores, num_output_tiles,
                             num_output_tiles * single_tile_size) >>

----------------------------------------------------------------------------
(* Kernel Binder, lines 90-155 *)

IsDram(t) == IF t.buffer_type = "DRAM" THEN 1 ELSE 0

reader_compile_time_args == <<a.dtype, IsDram(a), IsDram(b)>>

writer_compile_time_args == <<output_cb_index, a.dtype, IsDram(output)>>

CreateKernel(role, cores, compile_args) ==
    [role |-> role, core_ranges |-> cores, compile_time_args |-> compile_args]

compute_kernel_args_group_1(w) == <<1, 1, w.num_tiles_per_core_group_1>>

compute_kernel_args_group_2_Wrong(w) == <<1, 1, w.num_tiles_per_core_group_1>>
compute_kernel_args_group_2(w) == <<1, 1, w.num_tiles_per_core_group_2>>

KernelsOf(w) ==
    << CreateKernel("reader", w.all_cores, reader_compile_time_args),
       CreateKernel("writer", w.all_cores, writer_compile_time_args),
       CreateKernel("compute", w.core_group_1, compute_kernel_args_group_1(w)) >>
    \o (IF w.core_group_2 # {}
        THEN << CreateKernel("compute", w.core_group_2, compute_kernel_args_group_2(w)) >>
        ELSE << >>)

----------------------------------------------------------------------------
(* Runtime Argument Writer, lines 157-199 *)

ArgsCore(i, rows) == <<i \div rows, i % rows>>

ReaderArgs(n, num_tiles_read) ==
    << a.address, 0, 0, n, b.address, 0, 0, num_btensor_tiles,
       n, 1, 1, n, bnc1, num_tiles_read, Ht * Wt >>

WriterArgs(n, num_tiles_read) == << output.address, n, num_tiles_read >>

NextTilesRead_NoAdvance(num_tiles_read, n) == num_tiles_read
NextTilesRead(num_tiles_read, n) == num_tiles_read + n

SetRuntimeArgs(args, core, v) == (core :> v) @@ args

\* st = [reader, writer, ok]: the arguments written so far and whether the
\* "Core not in specified core ranges" assertion has been hit.
RECURSIVE RuntimeArgsLoop(_, _, _, _)
RuntimeArgsLoop(w, i, num_tiles_read, st) ==
    IF i >= w.num_cores
    THEN st
    ELSE LET core == ArgsCore(i, num_cores_y)
         IN  IF core \in w.core_group_1 \/ core \in w.core_group_2
             THEN LET n == IF core \in w.core_group_1
                           THEN w.num_tiles_per_core_group_1
                           ELSE w.num_tiles_per_core_group_2
                  IN  RuntimeArgsLoop(w, i + 1, NextTilesRead(num_tiles_read, n),
                          [st EXCEPT
                              !.reader = SetRuntimeArgs(@, core, ReaderArgs(n, num_tiles_read)),
                              !.writer = SetRuntimeArgs(@, core, WriterArgs(n, num_tiles_read))])
             ELSE [st EXCEPT !.ok = FALSE]

NoArgs == [c \in {} |-> << >>]

----------------------------------------------------------------------------
(* Patch callback, lines 201-234 *)

PatchCore(i, rows) == <<i \div rows, i % rows>>

PatchedCores_SkipFirst == {PatchCore(i, num_cores_y) : i \in 1..(work.num_cores - 1)}
PatchedCores == {PatchCore(i, num_cores_y) : i \in 0..(work.num_cores - 1)}

PatchReaderArgs_Clobber(runtime_args, src_a, src_b) ==
    [runtime_args EXCEPT ![1] = src_a, ![4] = src_b]
PatchReaderArgs_Shift(runtime_args, src_a, src_b) ==
    [runtime_args EXCEPT ![1] = src_a, ![5] = runtime_args[1]]
PatchReaderArgs(runtime_args, src_a, src_b) ==
    [runtime_args EXCEPT ![1] = src_a, ![5] = src_b]

PatchWriterArgs(runtime_args, dst) == [runtime_args EXCEPT ![1] = dst]

----------------------------------------------------------------------------
(* The state machine *)

\* The phases in which bcast_multi_core_hw has returned its Program.
Returned == {"built", "patched", "repatched"}
Patched == {"patched", "repatched"}

Tensor(shape, addr, btype) ==
    [shape |-> shape, address |-> addr, buffer_type |-> btype, dtype |-> "BFLOAT16"]

Init ==
    /\ \E n \in 0..MaxN, bn \in BatchesOfB,
          aa \in Addr, ba \in Addr, oa \in Addr, bt \in BufferTypes :
          /\ a = Tensor(<<n, 1, TILE_HEIGHT, TILE_WIDTH>>, aa, bt)
          /\ b = Tensor(<<bn, 1, TILE_HEIGHT, TILE_WIDTH>>, ba, "DRAM")
          /\ output = Tensor(<<n, 1, TILE_HEIGHT, TILE_WIDTH>>, oa, bt)
    /\ grid \in (1..MaxGrid) \X (1..MaxGrid)
    /\ phase = "init"
    /\ work = NoWork
    /\ circular_buffers = << >>
    /\ kernels = << >>
    /\ reader_args = NoArgs
    /\ writer_args = NoArgs
    /\ lastPatch = << >>
    /\ repeated = FALSE

\* bcast_multi_core_hw, lines 18-237
Construct ==
    /\ phase = "init"
    /\ LET w == SplitWorkCall
           st == RuntimeArgsLoop(w, 0, 0, [reader |-> NoArgs, writer |-> NoArgs, ok |-> TRUE])
       IN  /\ work' = w
           /\ circular_buffers' = CircularBuffersOf(w)
           /\ kernels' = KernelsOf(w)
           /\ reader_args' = st.reader
           /\ writer_args' = st.writer
           /\ phase' = IF st.ok THEN "built" ELSE "failed"
    /\ UNCHANGED <<a, b, output, grid, lastPatch, repeated>>

\* override_runtime_args_callback, lines 201-234.  The callback may be invoked
\* any number of times; a third invocation starts from a state that differs
\* from one after the first or second only in phase, so two are explored.
Patch ==
    /\ phase \in {"built", "patched"}
    /\ \E input_buffers \in [1..2 -> Addr], output_buffers \in [1..1 -> Addr] :
          LET src_dram_buffer_a == input_buffers[1]
              src_dram_buffer_b == input_buffers[2]
              dst_dram_buffer == output_buffers[1]
              p == <<src_dram_buffer_a, src_dram_buffer_b, dst_dram_buffer>>
          IN  /\ reader_args' = [c \in DOMAIN reader_args |->
                     IF c \in PatchedCores
                     THEN PatchReaderArgs(reader_args[c], src_dram_buffer_a, src_dram_buffer_b)
                     ELSE reader_args[c]]
              /\ writer_args' = [c \in DOMAIN writer_args |->
                     IF c \in PatchedCores
                     THEN PatchWriterArgs(writer_args[c], dst_dram_buffer)
                     ELSE writer_args[c]]
              /\ lastPatch' = p
              /\ repeated' = (phase # "built" /\ lastPatch = p)
    /\ phase' = IF phase = "built" THEN "patched" ELSE "repatched"
    /\ UNCHANGED <<a, b, output, grid, work, circular_buffers, kernels>>

Next == Construct \/ Patch

Spec == Init /\ [][Next]_vars

----------------------------------------------------------------------------
(* Vocabulary of the properties *)

\* Total tile count of operand A, from its shape.
TotalTiles == a.shape[1] * a.shape[2] * (a.shape[3] \div TILE_HEIGHT) * (a.shape[4] \div TILE_WIDTH)

\* The i-th active core in enumeration order.
ActiveCore(i) == <<i \div grid[2], i % grid[2]>>
ActiveIndices == 0..(work.num_cores - 1)
ActiveCores == {ActiveCore(i) : i \in ActiveIndices}

ReaderOffset(i) == Slot(reader_args[ActiveCore(i)], 13)
ReaderCount(i) == Slot(reader_args[ActiveCore(i)], 3)
WriterOffset(i) == Slot(writer_args[ActiveCore(i)], 2)
WriterCount(i) == Slot(writer_args[ActiveCore(i)], 1)
Window(i) == ReaderOffset(i)..(ReaderOffset(i) + ReaderCount(i) - 1)

ComputeKernels == {k \in 1..Len(kernels) : kernels[k].role = "compute"}
NonEmptyGroups == {g \in {work.core_group_1, work.core_group_2} : g # {}}

\* tiles_per_core of the work group a core belongs to.
TilesPerCoreOf(core) ==
    IF core \in work.core_group_1 THEN work.num_tiles_per_core_group_1
    ELSE work.num_tiles_per_core_group_2

----------------------------------------------------------------------------
\* C1: the per-core windows [offset, offset + tiles_per_core) written to the
\* reader (slot 13, count slot 3) and to the writer (slot 2, count slot 1) start
\* at 0, are contiguous in enumeration order, are pairwise disjoint, and their
\* union is exactly [0, total_tiles).
C1_TilingPartition ==
    phase \in Returned =>
        /\ DOMAIN reader_args = ActiveCores
        /\ DOMAIN writer_args = ActiveCores
        /\ \A i \in ActiveIndices :
              /\ WriterOffset(i) = ReaderOffset(i)
              /\ WriterCount(i) = ReaderCount(i)
              /\ i = 0 => ReaderOffset(i) = 0
              /\ i + 1 \in ActiveIndices => ReaderOffset(i + 1) = ReaderOffset(i) + ReaderCount(i)
        /\ \A i, j \in ActiveIndices : i # j => Window(i) \cap Window(j) = {}
        /\ UNION {Window(i) : i \in ActiveIndices} = 0..(TotalTiles - 1)

\* Two cores of different groups received windows, the second not at 0.
C1_Witness ==
    /\ phase = "built"
    /\ work.num_cores >= 2
    /\ ReaderCount(0) > ReaderCount(work.num_cores - 1)
    /\ ReaderOffset(work.num_cores - 1) > 0

\* C2: group1 and group2 are disjoint, their union has exactly
\* min(cols*rows, total_tiles) cores, and the tiles_per_core of all assigned
\* cores sum to total_tiles.
C2_Coverage ==
    phase \in Returned =>
        /\ work.core_group_1 \cap work.core_group_2 = {}
        /\ Cardinality(work.core_group_1 \cup work.core_group_2)
              = Min(grid[1] * grid[2], TotalTiles)
        /\ Cardinality(work.core_group_1) * work.num_tiles_per_core_group_1
              + Cardinality(work.core_group_2) * work.num_tiles_per_core_group_2
              = TotalTiles

\* A split with both groups present on a grid smaller than the tile count.
C2_Witness ==
    /\ phase = "built"
    /\ work.core_group_1 # {}
    /\ work.core_group_2 # {}
    /\ TotalTiles > grid[1] * grid[2]

\* C3: a step taken once the Program is built (a patch) changes, on every core,
\* at most reader slots 0 and 4 and writer slot 0; every other slot, the work
\* groups, the circular buffers and the kernels with their compile-time
\* arguments stay as they are, and no queue or kernel is created.
C3_PatchIsolation ==
    [][(phase \in Returned) =>
          /\ DOMAIN reader_args' = DOMAIN reader_args
          /\ DOMAIN writer_args' = DOMAIN writer_args
          /\ \A c \in DOMAIN reader_args :
                /\ Len(reader_args'[c]) = Len(reader_args[c])
                /\ \A k \in 0..(Len(reader_args[c]) - 1) :
                      k \notin {0, 4} => Slot(reader_args'[c], k) = Slot(reader_args[c], k)
          /\ \A c \in DOMAIN writer_args :
                /\ Len(writer_args'[c]) = Len(writer_args[c])
                /\ \A k \in 0..(Len(writer_args[c]) - 1) :
                      k # 0 => Slot(writer_args'[c], k) = Slot(writer_args[c], k)
          /\ work' = work
          /\ circular_buffers' = circular_buffers
          /\ kernels' = kernels]_vars

\* A patch has rewritten all three address slots of some core.
C3_Witness ==
    /\ phase \in Patched
    /\ \E c \in DOMAIN reader_args :
          /\ Slot(reader_args[c], 0) # a.address
          /\ Slot(reader_args[c], 4) # b.address
          /\ Slot(writer_args[c], 0) # output.address

\* C4: after patch([A', B'], [O']) every active core has the address of A' in
\* reader slot 0, of B' in reader slot 4 and of O' in writer slot 0.
C4_PatchReachesEveryCore ==
    phase \in Patched =>
        \A i \in ActiveIndices :
            /\ Slot(reader_args[ActiveCore(i)], 0) = lastPatch[1]
            /\ Slot(reader_args[ActiveCore(i)], 4) = lastPatch[2]
            /\ Slot(writer_args[ActiveCore(i)], 0) = lastPatch[3]

\* A second patch, with buffers other than the earlier patch's and other than
\* those of construction, on a Program with several active cores.
C4_Witness ==
    /\ phase = "repatched"
    /\ ~repeated
    /\ work.num_cores >= 2
    /\ lastPatch[1] # a.address
    /\ lastPatch[2] # b.address
    /\ lastPatch[3] # output.address

\* C5: a patch with the same buffers as the patch just before it leaves every
\* core's reader and writer runtime arguments as they were.
C5_IdempotentPatch ==
    [][(/\ phase \in Patched
        /\ phase' = "repatched"
        /\ lastPatch' = lastPatch)
          => (reader_args' = reader_args /\ writer_args' = writer_args)]_vars

\* The same buffers were patched twice in a row, and they are not the ones of
\* construction.
C5_Witness ==
    /\ repeated
    /\ work.num_cores >= 1
    /\ lastPatch # <<a.address, b.address, output.address>>

\* C6: with total_tiles = 0 construction succeeds, there is no active core,
\* both groups are empty, the Program has no kernel at all and no per-core
\* runtime arguments.
C6_ZeroTilesNoKernels ==
    (phase # "init" /\ TotalTiles = 0) =>
        /\ phase \in Returned
        /\ work.num_cores = 0
        /\ work.core_group_1 = {}
        /\ work.core_group_2 = {}
        /\ kernels = << >>
        /\ DOMAIN reader_args = {}
        /\ DOMAIN writer_args = {}

\* C7: reader slot 7 is, on every active core, operand B's own total tile
\* count bN*bC*bH*bW / tile area.
C7_OperandBTileCount ==
    phase \in Returned =>
        \A c \in ActiveCores :
            Slot(reader_args[c], 7)
                = (b.shape[1] * b.shape[2] * b.shape[3] * b.shape[4]) \div TILE_HW

\* C8: the number of compute kernel instances equals the number of non-empty
\* work groups, and no compute kernel is bound to an empty core range.
C8_ComputeKernelPerGroup ==
    phase \in Returned =>
        /\ Cardinality(ComputeKernels) = Cardinality(NonEmptyGroups)
        /\ \A k \in ComputeKernels : kernels[k].core_ranges # {}

\* C9: every active core lies in the core range of exactly one compute kernel
\* instance, whose compile-time arguments are <<1, 1, width_tiles_per_core>>
\* with width_tiles_per_core equal to reader slots 3, 8 and 11 and writer
\* slot 1 of that core, all equal to the tiles_per_core of the core's group.
C9_EnginesAgree ==
    phase \in Returned =>
        \A c \in ActiveCores :
            /\ Cardinality({k \in ComputeKernels : c \in kernels[k].core_ranges}) = 1
            /\ \A k \in ComputeKernels :
                  c \in kernels[k].core_ranges =>
                      /\ kernels[k].compile_time_args[1] = 1
                      /\ kernels[k].compile_time_args[2] = 1
                      /\ kernels[k].compile_time_args[3] = TilesPerCoreOf(c)
            /\ Slot(reader_args[c], 3) = TilesPerCoreOf(c)
            /\ Slot(reader_args[c], 8) = TilesPerCoreOf(c)
            /\ Slot(reader_args[c], 11) = TilesPerCoreOf(c)
            /\ Slot(writer_args[c], 1) = TilesPerCoreOf(c)

\* Both groups are present, with different tile counts, each under its own
\* compute kernel.
C9_Witness ==
    /\ phase = "built"
    /\ Cardinality(ComputeKernels) = 2
    /\ \A k \in ComputeKernels : kernels[k].core_ranges # {}
    /\ work.num_tiles_per_core_group_1 # work.num_tiles_per_core_group_2

====
